---- MODULE Spec2Model ----
(***************************************************************************)
(* Request decoding and validation pipeline of 7octo/validate.             *)
(*                                                                         *)
(* src/main.go           ValidateRequest, getRawValue, setFieldValue,      *)
(*                       getValidationMessage, the endpoint tables of main *)
(* src/unnamed/part_000  Uint64Slice.UnmarshalText, StringSlice            *)
(*                                                                         *)
(* Raw texts are sequences of one-character strings, so that splitting,    *)
(* trimming and number parsing are computed character by character.        *)
(* Field names and messages are TLA+ strings.                              *)
(***************************************************************************)
EXTENDS Integers, Sequences, FiniteSets, TLC

VARIABLES
    configs,    \* []ValidationConfig handed to ValidateRequest
    request,    \* the incoming *http.Request: [query, vars, body]
    pc,         \* position in the handler: "loop", "done", "panic" ("idle": none)
    idx,        \* index of the next descriptor the range loop visits
    req,        \* the GenericRequest being assembled
    errors,     \* the handler's `errors` slice (extraction errors)
    validated,  \* TRUE once validate.Struct(req) has been called
    response,   \* what was written to the ResponseWriter, NoResponse before
    raw,        \* coercion development: the raw text under test
    coercer,    \* coercion development: which list coercer is applied
    cpc,        \* coercion development: position
    first,      \* coercion development: result of coercing `raw`
    reser,      \* coercion development: the re-serialized text
    second      \* coercion development: result of coercing `reser`

vars == <<configs, request, pc, idx, req, errors, validated, response,
          raw, coercer, cpc, first, reser, second>>

pipelineVars == <<configs, request, pc, idx, req, errors, validated, response>>
coerceVars == <<raw, coercer, cpc, first, reser, second>>

----------------------------------------------------------------------------
(* Bounds of the model *)

\* longest descriptor list handed to ValidateRequest
MaxCfg == 2
\* longest raw text of the coercion development
MaxLen == 4

----------------------------------------------------------------------------
(* Text primitives (Go's strings and strconv packages, as the code uses them) *)

Digits == <<"0", "1", "2", "3", "4", "5", "6", "7", "8", "9">>

IsDigit(c) == \E i \in 1..10 : Digits[i] = c

DigitVal(c) == (CHOOSE i \in 1..10 : Digits[i] = c) - 1

\* the characters unicode.IsSpace accepts: tab, line feed, vertical tab, form
\* feed, carriage return, blank, and the white space beyond ASCII, which is
\* written here by its code point
WhiteSpace ==
    {"\t", "\n", "U+000B", "\f", "\r", " ", "U+0085", "U+00A0", "U+1680",
     "U+2000", "U+2001", "U+2002", "U+2003", "U+2004", "U+2005", "U+2006",
     "U+2007", "U+2008", "U+2009", "U+200A", "U+2028", "U+2029", "U+202F",
     "U+205F", "U+3000"}

IsSpace(c) == c \in WhiteSpace

\* strings.TrimSpace: leading and trailing white space removed
RECURSIVE TrimLeft(_)
TrimLeft(s) ==
    IF s # <<>> /\ IsSpace(Head(s)) THEN TrimLeft(Tail(s)) ELSE s

RECURSIVE TrimRight(_)
TrimRight(s) ==
    IF s # <<>> /\ IsSpace(s[Len(s)])
    THEN TrimRight(SubSeq(s, 1, Len(s) - 1))
    ELSE s

TrimSpace(s) == TrimRight(TrimLeft(s))

\* strings.Split(s, ","): always at least one element; Split("") = [""]
RECURSIVE SplitFrom(_, _)
SplitFrom(s, cur) ==
    IF s = <<>> THEN <<cur>>
    ELSE IF Head(s) = "," THEN <<cur>> \o SplitFrom(Tail(s), <<>>)
    ELSE SplitFrom(Tail(s), Append(cur, Head(s)))

Split(s) == SplitFrom(s, <<>>)

\* value of a digit string in the given base, most significant digit first
RECURSIVE BaseValue(_, _)
BaseValue(s, base) ==
    IF s = <<>> THEN 0
    ELSE base * BaseValue(SubSeq(s, 1, Len(s) - 1), base) + DigitVal(s[Len(s)])

\* the digits of s without its leading zeros
RECURSIVE StripZeros(_)
StripZeros(s) ==
    IF s # <<>> /\ Head(s) = "0" THEN StripZeros(Tail(s)) ELSE s

\* a and b are digit strings of one length: a is the greater number
RECURSIVE DigitsGreater(_, _)
DigitsGreater(a, b) ==
    IF a = <<>> THEN FALSE
    ELSE IF Head(a) # Head(b) THEN DigitVal(Head(a)) > DigitVal(Head(b))
    ELSE DigitsGreater(Tail(a), Tail(b))

\* the number the digit string s writes is above the one max writes (max
\* without leading zeros); decided on the digits, no number is computed
AboveDigits(s, max) ==
    LET t == StripZeros(s)
    IN \/ Len(t) > Len(max)
       \/ Len(t) = Len(max) /\ DigitsGreater(t, max)

\* 1<<64 - 1 in base 10 and in base 8
MaxUint64Text(base) ==
    IF base = 10
    THEN <<"1", "8", "4", "4", "6", "7", "4", "4", "0", "7",
           "3", "7", "0", "9", "5", "5", "1", "6", "1", "5">>
    ELSE <<"1", "7", "7", "7", "7", "7", "7", "7", "7", "7", "7",
           "7", "7", "7", "7", "7", "7", "7", "7", "7", "7", "7">>

\* 1<<63 - 1 and 1<<63 in base 10
MaxInt64Text ==
    <<"9", "2", "2", "3", "3", "7", "2", "0", "3", "6",
      "8", "5", "4", "7", "7", "5", "8", "0", "7">>

MinInt64Text ==
    <<"9", "2", "2", "3", "3", "7", "2", "0", "3", "6",
      "8", "5", "4", "7", "7", "5", "8", "0", "8">>

\* strconv.ParseUint(s, base, 64): the empty string, a sign or any character
\* that is no digit of the base is a syntax error; a number above 1<<64 - 1
\* is a range error.  Either way err != nil.
ParseUintBase(s, base) ==
    IF s = <<>> \/ \E i \in 1..Len(s) : ~IsDigit(s[i]) \/ DigitVal(s[i]) >= base
    THEN [ok |-> FALSE, val |-> 0]
    ELSE IF AboveDigits(s, MaxUint64Text(base))
    THEN [ok |-> FALSE, val |-> 0]
    ELSE [ok |-> TRUE, val |-> BaseValue(s, base)]

\* ParseUint called with base 8 instead of 10
ParseUintOctal(s) == ParseUintBase(s, 8)

\* strconv.ParseUint(s, 10, 64)
ParseUint(s) == ParseUintBase(s, 10)

\* strconv.ParseInt(s, 10, 64): an optional sign, then ParseUint of the rest;
\* a number above 1<<63 - 1, or below -(1<<63), is a range error
ParseInt(s) ==
    IF s = <<>> THEN [ok |-> FALSE, val |-> 0]
    ELSE LET neg  == Head(s) = "-"
             rest == IF Head(s) \in {"+", "-"} THEN Tail(s) ELSE s
             u    == ParseUint(rest)
         IN IF ~u.ok THEN [ok |-> FALSE, val |-> 0]
            ELSE IF ~neg /\ AboveDigits(rest, MaxInt64Text)
            THEN [ok |-> FALSE, val |-> 0]
            ELSE IF neg /\ AboveDigits(rest, MinInt64Text)
            THEN [ok |-> FALSE, val |-> 0]
            ELSE [ok |-> TRUE, val |-> IF neg THEN 0 - u.val ELSE u.val]

\* strconv.FormatUint(n, 10): the decimal form of n
RECURSIVE FormatUint(_)
FormatUint(n) ==
    IF n < 10 THEN <<Digits[n + 1]>>
    ELSE Append(FormatUint(n \div 10), Digits[(n % 10) + 1])

\* strings.Join(elems, ",") of the decimal forms
RECURSIVE JoinDecimal(_)
JoinDecimal(l) ==
    IF l = <<>> THEN <<>>
    ELSE IF Len(l) = 1 THEN FormatUint(l[1])
    ELSE FormatUint(l[1]) \o <<",">> \o JoinDecimal(Tail(l))

----------------------------------------------------------------------------
(* Data model *)

BodyParser  == "body"
QueryParser == "query"
ParamParser == "param"

\* the exported fields of GenericRequest, in declaration order
StructFields == <<"Name", "Email", "Tags", "IDs", "UserID", "Rating">>

FieldNames == {StructFields[i] : i \in 1..Len(StructFields)}

\* the unexported field of GenericRequest: FieldByName finds it, no Set call
\* may touch it
UnexportedFields == {"validationGroup"}

\* reflect kind of each field of GenericRequest
FieldKind(f) ==
    CASE f \in {"Name", "Email", "validationGroup"} -> "string"
      [] f = "Tags"   -> "[]string"
      [] f = "IDs"    -> "[]uint64"
      [] f = "UserID" -> "uint64"
      [] f = "Rating" -> "int"

\* the zero GenericRequest (a nil slice is the empty sequence)
ZeroRequest ==
    [Name |-> <<>>, Email |-> <<>>, Tags |-> <<>>, IDs |-> <<>>,
     UserID |-> 0, Rating |-> 0, validationGroup |-> ""]

\* &GenericRequest{validationGroup: group}
NewRequest(group) == [ZeroRequest EXCEPT !.validationGroup = group]

\* reflect.ValueOf(req).Elem().FieldByName(name).IsValid(): true of every
\* field of the struct, exported or not
FieldIsValid(name) == name \in FieldNames \cup UnexportedFields

\* reflect's CanSet: the Set calls of setFieldValue panic on a value obtained
\* through an unexported field
CanSet(name) == name \in FieldNames

ValidationError(field, message, value) ==
    [Field |-> field, Message |-> message, Value |-> value]

ErrorResponse(code, message, errs) ==
    [code |-> code, message |-> message, errors |-> errs, data |-> <<>>]

\* the 200 answer: {"status": "valid", "data": req}
ValidResponse(r) ==
    [code |-> 200, message |-> "valid", errors |-> <<>>, data |-> <<r>>]

NoResponse == [code |-> 0, message |-> "", errors |-> <<>>, data |-> <<>>]

----------------------------------------------------------------------------
(* Source reader *)

\* getRawValue: the raw text and the presence flag.  A body descriptor is
\* never looked up; query and path parameters are looked up by cfg.FieldName.
getRawValueGetOnly(r, cfg) ==
    CASE cfg.Parser = BodyParser -> [text |-> <<>>, found |-> FALSE]
      [] cfg.Parser = QueryParser ->
            IF cfg.FieldName \in DOMAIN r.query
            THEN [text |-> r.query[cfg.FieldName], found |-> TRUE]
            ELSE [text |-> <<>>, found |-> TRUE]
      [] cfg.Parser = ParamParser ->
            IF cfg.FieldName \in DOMAIN r.vars
            THEN [text |-> r.vars[cfg.FieldName], found |-> TRUE]
            ELSE [text |-> <<>>, found |-> TRUE]
      [] OTHER -> [text |-> <<>>, found |-> FALSE]

getRawValue(r, cfg) ==
    CASE cfg.Parser = BodyParser -> [text |-> <<>>, found |-> FALSE]
      [] cfg.Parser = QueryParser ->
            IF cfg.FieldName \in DOMAIN r.query
            THEN [text |-> r.query[cfg.FieldName], found |-> TRUE]
            ELSE [text |-> <<>>, found |-> FALSE]
      [] cfg.Parser = ParamParser ->
            IF cfg.FieldName \in DOMAIN r.vars
            THEN [text |-> r.vars[cfg.FieldName], found |-> TRUE]
            ELSE [text |-> <<>>, found |-> FALSE]
      [] OTHER -> [text |-> <<>>, found |-> FALSE]

----------------------------------------------------------------------------
(* Value coercer *)

\* the []string case of setFieldValue: every element trimmed
TrimAll(values) == [i \in 1..Len(values) |-> TrimSpace(values[i])]

\* index of the first element of values that ParseUint rejects after
\* trimming, 0 when every element parses
FirstBadElement(values) ==
    IF \A i \in 1..Len(values) : ParseUint(TrimSpace(values[i])).ok
    THEN 0
    ELSE CHOOSE i \in 1..Len(values) :
            /\ ~ParseUint(TrimSpace(values[i])).ok
            /\ \A j \in 1..(i - 1) : ParseUint(TrimSpace(values[j])).ok

\* the []uint64 case of setFieldValue, assigning what was parsed before the
\* failing element
parseUintSlicePartial(old, values) ==
    LET bad == FirstBadElement(values)
    IN IF bad = 0
       THEN [err |-> "",
             field |-> [i \in 1..Len(values) |-> ParseUint(TrimSpace(values[i])).val]]
       ELSE [err |-> "element " \o ToString(bad) \o ": must be positive integer",
             field |-> [i \in 1..(bad - 1) |-> ParseUint(TrimSpace(values[i])).val]]

\* the []uint64 case of setFieldValue: the slice is assigned to the field only
\* after every element parsed; the first failing element returns the error
\* naming its 1-based index and leaves the field as it was
parseUintSlice(old, values) ==
    LET bad == FirstBadElement(values)
    IN IF bad = 0
       THEN [err |-> "",
             field |-> [i \in 1..Len(values) |-> ParseUint(TrimSpace(values[i])).val]]
       ELSE [err |-> "element " \o ToString(bad) \o ": must be positive integer",
             field |-> old]

\* the kinds reflect knows for the elements of a slice
ElemKinds ==
    {"bool", "int", "int8", "int16", "int32", "int64", "uint", "uint8",
     "uint16", "uint32", "uint64", "uintptr", "float32", "float64",
     "complex64", "complex128", "array", "chan", "func", "interface", "map",
     "ptr", "slice", "string", "struct", "unsafe.Pointer"}

\* field.Kind() == reflect.Slice, written with the kind of its elements
SliceKinds == {"[]" \o e : e \in ElemKinds}

\* setFieldValue(field, rawValue, cfg): err is "" for a nil error; field is
\* the field's contents after the call, given its contents old before it
setFieldValue(kind, old, rawValue) ==
    CASE kind = "string" -> [err |-> "", field |-> rawValue]
      [] kind \in {"int", "int64"} ->
            LET p == ParseInt(rawValue)
            IN IF p.ok THEN [err |-> "", field |-> p.val]
               ELSE [err |-> "must be a valid integer", field |-> old]
      [] kind \in {"uint", "uint64"} ->
            LET p == ParseUint(rawValue)
            IN IF p.ok THEN [err |-> "", field |-> p.val]
               ELSE [err |-> "must be a positive integer", field |-> old]
      [] kind = "[]string" ->
            [err |-> "", field |-> TrimAll(Split(rawValue))]
      [] kind = "[]uint64" -> parseUintSlice(old, Split(rawValue))
      [] kind \in SliceKinds \ {"[]string", "[]uint64"} ->
            [err |-> "unsupported slice type", field |-> old]
      [] OTHER -> [err |-> "unsupported field type", field |-> old]

\* Uint64Slice.UnmarshalText applied to the receiver u: the empty text
\* returns at once and leaves u alone; otherwise u is reset and every
\* non-empty trimmed part is parsed and appended, up to the first failure
RECURSIVE appendParts(_, _)
appendParts(u, parts) ==
    IF parts = <<>> THEN [ok |-> TRUE, u |-> u]
    ELSE LET part == TrimSpace(Head(parts))
         IN IF part = <<>> THEN appendParts(u, Tail(parts))
            ELSE IF ~ParseUint(part).ok THEN [ok |-> FALSE, u |-> u]
            ELSE appendParts(Append(u, ParseUint(part).val), Tail(parts))

Uint64SliceUnmarshalText(u, text) ==
    IF text = <<>> THEN [ok |-> TRUE, u |-> u]
    ELSE appendParts(<<>>, Split(text))

\* StringSlice.UnmarshalText: split on ",", every element trimmed, never fails
StringSliceUnmarshalText(text) == [ok |-> TRUE, s |-> TrimAll(Split(text))]

----------------------------------------------------------------------------
(* Validation engine, as ValidateRequest drives it *)

\* a text as a string, to be put into a message
RECURSIVE Str(_)
Str(t) == IF t = <<>> THEN "" ELSE Head(t) \o Str(Tail(t))

\* validate.Struct(req): the validator applies the rules of the `validate`
\* struct tags.  GenericRequest declares json, query and param tags only and
\* cfg.ValidateTags is never handed to the validator, so it has no rule to
\* apply to any field and returns nil whatever the record holds.
validatorErrors(r) == <<>>

\* e.Error() of one validator.FieldError
FieldErrorText(e) ==
    "Key: '" \o e.Namespace \o "' Error:Field validation for '" \o e.Field
        \o "' failed on the '" \o e.Tag \o "' tag"

\* strings.Replace(param, ",", ", ", -1)
RECURSIVE ReplaceCommas(_)
ReplaceCommas(t) ==
    IF t = <<>> THEN <<>>
    ELSE IF Head(t) = "," THEN <<",", " ">> \o ReplaceCommas(Tail(t))
    ELSE <<Head(t)>> \o ReplaceCommas(Tail(t))

\* getValidationMessage(e), from e.Tag(), e.Kind(), e.Param() and e.Error()
getValidationMessage(e) ==
    CASE e.Tag = "required" -> "This field is required"
      [] e.Tag = "min" ->
            IF e.Kind = "string"
            THEN "Minimum " \o Str(e.Param) \o " characters required"
            ELSE IF e.Kind \in SliceKinds
                 THEN "At least " \o Str(e.Param) \o " items required"
            ELSE "Minimum value is " \o Str(e.Param)
      [] e.Tag = "max" ->
            IF e.Kind = "string"
            THEN "Maximum " \o Str(e.Param) \o " characters allowed"
            ELSE IF e.Kind \in SliceKinds
                 THEN "Maximum " \o Str(e.Param) \o " items allowed"
            ELSE "Maximum value is " \o Str(e.Param)
      [] e.Tag = "in" -> "Must be one of: " \o Str(ReplaceCommas(e.Param))
      [] e.Tag = "unique" -> "Contains duplicate values"
      [] e.Tag = "dive" -> "Invalid element: " \o FieldErrorText(e)
      [] e.Tag = "email" -> "Invalid email format"
      [] OTHER -> FieldErrorText(e)

\* the decimal form of an integer
FormatInt(n) == IF n < 0 THEN <<"-">> \o FormatUint(0 - n) ELSE FormatUint(n)

\* fmt.Sprintf("%v", v) of a string or a number
SprintScalar(kind, v) == IF kind = "string" THEN v ELSE FormatInt(v)

\* the elements of a slice printed with a blank between them
RECURSIVE SprintElems(_, _)
SprintElems(kind, l) ==
    IF l = <<>> THEN <<>>
    ELSE IF Len(l) = 1 THEN SprintScalar(kind, l[1])
    ELSE SprintScalar(kind, l[1]) \o <<" ">> \o SprintElems(kind, Tail(l))

\* fmt.Sprintf("%v", e.Value()): a slice is printed in brackets
Sprint(kind, v) ==
    CASE kind = "[]string" -> <<"[">> \o SprintElems("string", v) \o <<"]">>
      [] kind = "[]uint64" -> <<"[">> \o SprintElems("uint64", v) \o <<"]">>
      [] OTHER -> SprintScalar(kind, v)

\* validate.Struct(req) and the conversion loop of ValidateRequest: one
\* ValidationError for each validator error, in the validator's order
validateStruct(r) ==
    [k \in 1..Len(validatorErrors(r)) |->
        LET e == validatorErrors(r)[k]
        IN ValidationError(e.StructField, getValidationMessage(e),
                           Sprint(e.Kind, e.Value))]

----------------------------------------------------------------------------
(* Descriptors and requests *)

Config(name, parser, required, default, tags) ==
    [FieldName |-> name, Parser |-> parser, Required |-> required,
     Default |-> default, ValidateTags |-> tags]

\* the descriptors of the three endpoint tables of main
CreateName  == Config("Name", BodyParser, TRUE, <<>>, "required,min=3,max=50")
CreateEmail == Config("Email", BodyParser, TRUE, <<>>, "required,email")
CreateTags  == Config("Tags", BodyParser, FALSE, <<>>, "omitempty,unique,dive,min=2,max=20")
UpdateUserID == Config("UserID", ParamParser, TRUE, <<>>, "required,min=1")
UpdateName  == Config("Name", BodyParser, FALSE, <<>>, "omitempty,min=3,max=50")
UpdateIDs   == Config("IDs", QueryParser, FALSE, <<>>, "omitempty,unique,dive,min=1")
SearchTags  == Config("Tags", QueryParser, TRUE, <<>>,
                      "required,min=1,max=5,dive,in=tech,sports,politics")
SearchRating == Config("Rating", QueryParser, FALSE, <<"5">>, "omitempty,min=1,max=5")

\* two descriptors no table of main holds: a required integer read from the
\* query, and a descriptor naming a field GenericRequest does not have
RequiredRating == Config("Rating", QueryParser, TRUE, <<>>, "required,min=1,max=5")
Miswired == Config("Nickname", QueryParser, TRUE, <<>>, "required")

\* a descriptor naming the unexported field of GenericRequest
GroupField == Config("validationGroup", QueryParser, TRUE, <<>>, "required")

Descriptors ==
    {CreateName, CreateEmail, CreateTags, UpdateUserID, UpdateName, UpdateIDs,
     SearchTags, SearchRating, RequiredRating, Miswired, GroupField}

\* the group names main hands to ValidateRequest
Groups == {"create", "update", "search"}

\* descriptor lists of 1..MaxCfg descriptors, each describing another field
ConfigLists ==
    UNION {{c \in [1..n -> Descriptors] :
               \A i, j \in 1..n : i # j => c[i].FieldName # c[j].FieldName}
           : n \in 1..MaxCfg}

\* raw texts a query or path parameter carries
RawTexts ==
    {<<>>, <<"5">>, <<"-", "3">>, <<"7", ",", "\t", "x">>,
     <<"t", "e", "c", "h", ",", "m", "u", "s", "i", "c">>,
     <<"1", "8", "4", "4", "6", "7", "4", "4", "0", "7",
       "3", "7", "0", "9", "5", "5", "1", "6", "1", "6">>}

\* what a body supplies for a member
BodyTexts == {<<"A", "l">>}

NamesOf(cfgs, parser) ==
    {cfgs[i].FieldName : i \in {j \in 1..Len(cfgs) : cfgs[j].Parser = parser}}

\* the maps from some of the names to texts
PartialMaps(names, texts) == UNION {[S -> texts] : S \in SUBSET names}

\* the requests that differ in what the descriptors of cfgs can look at
Requests(cfgs) ==
    [query : PartialMaps(NamesOf(cfgs, QueryParser), RawTexts),
     vars  : PartialMaps(NamesOf(cfgs, ParamParser), RawTexts),
     body  : PartialMaps(NamesOf(cfgs, BodyParser), BodyTexts)]

----------------------------------------------------------------------------
(* Extraction pipeline: the handler ValidateRequest returns *)

\* the errors the loop appends for a descriptor whose value was not found
PresenceErrors(cfg) ==
    IF cfg.Required
    THEN <<ValidationError(cfg.FieldName, "This field is required", <<>>)>>
    ELSE <<>>

\* an error put in front of the slice instead of at its end
PrependError(errs, e) == <<e>> \o errs

\* errors = append(errors, e)
AppendError(errs, e) == Append(errs, e)

\* a break where the loop has its continue
BreakLoop(cfgs, i) == Len(cfgs) + 1

\* continue: the range loop goes on with the next descriptor
ContinueLoop(cfgs, i) == i + 1

\* parsing errors exist only when there are at least two
MoreThanOneError(errs) == Len(errs) > 1

\* len(errors) > 0
ParsingFailed(errs) == Len(errs) > 0

\* the body of the range loop for one descriptor: the record and the error
\* slice after it; panics when setFieldValue reaches a Set call on the
\* unexported field, which ends the handler with no answer written
VisitField(cfg, rq, r, errs) ==
    IF ~FieldIsValid(cfg.FieldName)
    THEN [req |-> r, errors |-> errs, panics |-> FALSE]
    ELSE LET rv == getRawValue(rq, cfg)
         IN IF ~rv.found
            THEN [req |-> r,
                  errors |-> IF PresenceErrors(cfg) = <<>> THEN errs
                             ELSE AppendError(errs, PresenceErrors(cfg)[1]),
                  panics |-> FALSE]
            ELSE LET f == cfg.FieldName
                     s == setFieldValue(FieldKind(f), r[f], rv.text)
                 IN IF s.err = "" /\ ~CanSet(f)
                    THEN [req |-> r, errors |-> errs, panics |-> TRUE]
                    ELSE [req |-> [r EXCEPT ![f] = s.field],
                          errors |-> IF s.err # ""
                                     THEN AppendError(errs,
                                              ValidationError(f, s.err, rv.text))
                                     ELSE errs,
                          panics |-> FALSE]

Looping == pc = "loop" /\ idx <= Len(configs)

Visit ==
    /\ req' = VisitField(configs[idx], request, req, errors).req
    /\ errors' = VisitField(configs[idx], request, req, errors).errors
    /\ UNCHANGED <<configs, request, pc, validated, response>>
    /\ UNCHANGED coerceVars

\* the descriptor names no field of the record: continue
SkipUnknownField ==
    /\ Looping
    /\ ~FieldIsValid(configs[idx].FieldName)
    /\ idx' = ContinueLoop(configs, idx)
    /\ Visit

\* the value was not found: the required error, if any, and continue
MissingField ==
    /\ Looping
    /\ FieldIsValid(configs[idx].FieldName)
    /\ ~getRawValue(request, configs[idx]).found
    /\ idx' = ContinueLoop(configs, idx)
    /\ Visit

\* the value was found: setFieldValue, its error appended if it failed
SetField ==
    /\ Looping
    /\ FieldIsValid(configs[idx].FieldName)
    /\ getRawValue(request, configs[idx]).found
    /\ ~VisitField(configs[idx], request, req, errors).panics
    /\ idx' = idx + 1
    /\ Visit

\* the value was found for the unexported field: field.SetString panics, the
\* handler is left at once and writes no answer
SetFieldPanics ==
    /\ Looping
    /\ FieldIsValid(configs[idx].FieldName)
    /\ getRawValue(request, configs[idx]).found
    /\ VisitField(configs[idx], request, req, errors).panics
    /\ pc' = "panic"
    /\ UNCHANGED <<configs, request, idx, req, errors, validated, response>>
    /\ UNCHANGED coerceVars

\* parsing errors exist: 400 and return, validate.Struct is not called
ReturnEarly ==
    /\ pc = "loop" /\ idx > Len(configs)
    /\ ParsingFailed(errors)
    /\ response' = ErrorResponse(400, "Invalid request data", errors)
    /\ pc' = "done"
    /\ UNCHANGED <<configs, request, idx, req, errors, validated>>
    /\ UNCHANGED coerceVars

\* validate.Struct(req): 422 with its errors, 200 with the record if none
ValidateStruct ==
    /\ pc = "loop" /\ idx > Len(configs)
    /\ ~ParsingFailed(errors)
    /\ validated' = TRUE
    /\ response' = IF validateStruct(req) # <<>>
                   THEN ErrorResponse(422, "Validation failed", validateStruct(req))
                   ELSE ValidResponse(req)
    /\ pc' = "done"
    /\ UNCHANGED <<configs, request, idx, req, errors>>
    /\ UNCHANGED coerceVars

CoerceIdle ==
    /\ raw = <<>> /\ coercer = "none" /\ cpc = "idle"
    /\ first = [ok |-> FALSE, val |-> <<>>]
    /\ reser = <<>>
    /\ second = [ok |-> FALSE, val |-> <<>>]

Init ==
    /\ configs \in ConfigLists
    /\ request \in Requests(configs)
    /\ pc = "loop"
    /\ idx = 1
    /\ req \in {NewRequest(group) : group \in Groups}
    /\ errors = <<>>
    /\ validated = FALSE
    /\ response = NoResponse
    /\ CoerceIdle

Next ==
    \/ SkipUnknownField
    \/ MissingField
    \/ SetField
    \/ SetFieldPanics
    \/ ReturnEarly
    \/ ValidateStruct

Spec == Init /\ [][Next]_vars

----------------------------------------------------------------------------
(* Coercion development: a raw text coerced to an unsigned integer list,    *)
(* the list written out again and the written text coerced once more.       *)

Alphabet == {"0", "1", "7", ",", " ", "\t", "x"}

\* the texts of at most n characters
TextsUpTo(n) == UNION {[1..k -> Alphabet] : k \in 0..n}

\* the two unsigned integer list coercers of the repository, each applied to
\* a fresh (nil) destination
CoerceUintList(which, text) ==
    IF which = "setFieldValue"
    THEN LET s == setFieldValue("[]uint64", ZeroRequest.IDs, text)
         IN [ok |-> s.err = "", val |-> s.field]
    ELSE LET u == Uint64SliceUnmarshalText(<<>>, text)
         IN [ok |-> u.ok, val |-> u.u]

PipelineIdle ==
    /\ configs = <<>>
    /\ request = [query |-> <<>>, vars |-> <<>>, body |-> <<>>]
    /\ pc = "idle"
    /\ idx = 1
    /\ req = ZeroRequest
    /\ errors = <<>>
    /\ validated = FALSE
    /\ response = NoResponse

InitCoerce ==
    /\ raw \in TextsUpTo(MaxLen)
    /\ coercer \in {"setFieldValue", "UnmarshalText"}
    /\ cpc = "start"
    /\ first = [ok |-> FALSE, val |-> <<>>]
    /\ reser = <<>>
    /\ second = [ok |-> FALSE, val |-> <<>>]
    /\ PipelineIdle

CoerceFirst ==
    /\ cpc = "start"
    /\ first' = CoerceUintList(coercer, raw)
    /\ cpc' = IF first'.ok THEN "coerced" ELSE "failed"
    /\ UNCHANGED <<raw, coercer, reser, second>>
    /\ UNCHANGED pipelineVars

Reserialize ==
    /\ cpc = "coerced"
    /\ reser' = JoinDecimal(first.val)
    /\ cpc' = "joined"
    /\ UNCHANGED <<raw, coercer, first, second>>
    /\ UNCHANGED pipelineVars

CoerceSecond ==
    /\ cpc = "joined"
    /\ second' = CoerceUintList(coercer, reser)
    /\ cpc' = "done"
    /\ UNCHANGED <<raw, coercer, first, reser>>
    /\ UNCHANGED pipelineVars

NextCoerce == CoerceFirst \/ Reserialize \/ CoerceSecond

SpecCoerce == InitCoerce /\ [][NextCoerce]_vars

----------------------------------------------------------------------------
(* Vocabulary of the properties, stated on the request and the descriptor   *)
(* list rather than on the handler's own helpers                            *)

\* the request carries a value for descriptor i in the source it names
Supplied(i) ==
    LET c == configs[i]
    IN \/ c.Parser = QueryParser /\ c.FieldName \in DOMAIN request.query
       \/ c.Parser = ParamParser /\ c.FieldName \in DOMAIN request.vars
       \/ c.Parser = BodyParser /\ c.FieldName \in DOMAIN request.body

\* the text the request carries for descriptor i, which it supplies
SuppliedText(i) ==
    LET c == configs[i]
    IN CASE c.Parser = QueryParser -> request.query[c.FieldName]
         [] c.Parser = ParamParser -> request.vars[c.FieldName]
         [] c.Parser = BodyParser -> request.body[c.FieldName]

\* descriptor i is read from the query string or the route
Looked(i) == configs[i].Parser \in {QueryParser, ParamParser}

\* descriptor i names a field of the record
Wired(i) == configs[i].FieldName \in FieldNames \cup UnexportedFields

\* digits only, writing a number of at most 1<<64 - 1
IsUintText(t) ==
    /\ t # <<>>
    /\ \A k \in 1..Len(t) : IsDigit(t[k])
    /\ ~AboveDigits(t, MaxUint64Text(10))

\* an optional sign and digits, writing a number of -(1<<63) .. 1<<63 - 1
IsIntText(t) ==
    /\ t # <<>>
    /\ LET d == IF Head(t) \in {"+", "-"} THEN Tail(t) ELSE t
       IN /\ d # <<>>
          /\ \A k \in 1..Len(d) : IsDigit(d[k])
          /\ ~AboveDigits(d, IF Head(t) = "-" THEN MinInt64Text ELSE MaxInt64Text)

\* the text is a base-10 rendering of a value of the kind
Coercible(kind, t) ==
    CASE kind = "int" -> IsIntText(t)
      [] kind = "uint64" -> IsUintText(t)
      [] kind = "[]uint64" ->
            \A k \in 1..Len(Split(t)) : IsUintText(TrimSpace(Split(t)[k]))
      [] OTHER -> TRUE

\* positions of the errors reported for field f
ErrorsFor(errs, f) == {k \in 1..Len(errs) : errs[k].Field = f}

RequiredAbsent(i) ==
    Wired(i) /\ Looked(i) /\ configs[i].Required /\ ~Supplied(i)

Uncoercible(i) ==
    /\ Wired(i) /\ Looked(i) /\ Supplied(i)
    /\ ~Coercible(FieldKind(configs[i].FieldName), SuppliedText(i))

Indexes == 1..Len(configs)

----------------------------------------------------------------------------
(* Properties *)

\* C1: once the handler has answered, every required descriptor whose query
\* or path parameter is not present has made the answer a 400 whose error
\* list holds exactly one error for its field, the error "This field is
\* required" with no raw value, hence no coercion error for that field.
C1_RequiredAbsentOneError ==
    pc = "done" =>
        \A i \in Indexes :
            RequiredAbsent(i) =>
                LET f == configs[i].FieldName
                IN /\ response.code = 400
                   /\ Cardinality(ErrorsFor(response.errors, f)) = 1
                   /\ \A k \in ErrorsFor(response.errors, f) :
                          response.errors[k]
                              = ValidationError(f, "This field is required", <<>>)

\* a path parameter the route does not carry, after another field was coerced
C1_Witness ==
    /\ pc = "done"
    /\ \E i \in Indexes :
          RequiredAbsent(i) /\ configs[i].Parser = ParamParser
    /\ \E j \in Indexes : Wired(j) /\ Looked(j) /\ Supplied(j)

\* C2: validate.Struct is called only when every descriptor has been visited
\* and the extraction error list is empty; a request with any extraction
\* error ends as 400 without validate.Struct having been called.
C2_ValidateOnlyWhenExtractionClean ==
    /\ validated => (idx = Len(configs) + 1 /\ errors = <<>>)
    /\ (pc = "done" /\ errors # <<>>) =>
           (response.code = 400 /\ ~validated)

\* a record with one field assigned and another field in error is answered
\* without validation
C2_Witness ==
    /\ pc = "done"
    /\ errors # <<>>
    /\ \E f \in FieldNames : req[f] # ZeroRequest[f]
    /\ ~validated
    /\ response.code = 400

\* C3: the loop visits every descriptor whatever failed before: once the
\* handler has answered, the index is past the list and every descriptor whose
\* field is required and absent, or present and uncoercible, has exactly one
\* error in the 400 answer.
C3_EveryDescriptorVisited ==
    pc = "done" =>
        /\ idx = Len(configs) + 1
        /\ \A i \in Indexes :
              (RequiredAbsent(i) \/ Uncoercible(i)) =>
                  /\ response.code = 400
                  /\ Cardinality(ErrorsFor(response.errors,
                                           configs[i].FieldName)) = 1

\* a required field absent and, after it, an uncoercible one: both reported
C3_Witness ==
    /\ pc = "done"
    /\ \E i, j \in Indexes :
          /\ i < j
          /\ RequiredAbsent(i) /\ Uncoercible(j)
    /\ Len(response.errors) = 2

\* C4 (as claimed): a descriptor with a default literal whose field is not
\* present has the coerced default in the record once the handler answered.
C4_DefaultApplied ==
    pc = "done" =>
        \A i \in Indexes :
            (Wired(i) /\ Looked(i) /\ ~Supplied(i) /\ configs[i].Default # <<>>) =>
                LET f == configs[i].FieldName
                IN /\ Coercible(FieldKind(f), configs[i].Default)
                   /\ req[f] = ParseInt(configs[i].Default).val

\* C5 (as claimed): the required body descriptor Name (min 3, max 50) with a
\* body supplying "Al" ends as 422 with the one error "Minimum 3 characters
\* required" for Name.
C5_BodyFieldValidated ==
    (/\ pc = "done"
     /\ configs = <<CreateName>>
     /\ "Name" \in DOMAIN request.body
     /\ request.body["Name"] = <<"A", "l">>) =>
        response = ErrorResponse(422, "Validation failed",
                       <<ValidationError("Name", "Minimum 3 characters required",
                                         <<"A", "l">>)>>)

\* C6 (as claimed): the required query descriptor Tags with in=tech,sports,
\* politics and the query value "tech,music" ends as 422 with exactly one
\* error, "Invalid element: Must be one of: tech, sports, politics".
C6_ElementOutsideSet ==
    (/\ pc = "done"
     /\ configs = <<SearchTags>>
     /\ "Tags" \in DOMAIN request.query
     /\ request.query["Tags"]
            = <<"t", "e", "c", "h", ",", "m", "u", "s", "i", "c">>) =>
        /\ response.code = 422
        /\ Len(response.errors) = 1
        /\ response.errors[1].Message
               = "Invalid element: Must be one of: tech, sports, politics"

\* C7: once the handler has answered, every descriptor whose field is present
\* in the query or the route with a text that is no rendering of the field's
\* type has exactly one error, which carries that text as its value and is
\* not the required error, and the field of the record is at its zero value.
C7_UncoercibleOneErrorZeroField ==
    pc = "done" =>
        \A i \in Indexes :
            Uncoercible(i) =>
                LET f == configs[i].FieldName
                IN /\ Cardinality(ErrorsFor(response.errors, f)) = 1
                   /\ \A k \in ErrorsFor(response.errors, f) :
                          /\ response.errors[k].Value = SuppliedText(i)
                          /\ response.errors[k].Message # "This field is required"
                   /\ req[f] = ZeroRequest[f]

\* an unsigned integer list whose first element parses and whose second
\* does not
C7_Witness ==
    /\ pc = "done"
    /\ \E i \in Indexes :
          /\ Uncoercible(i)
          /\ FieldKind(configs[i].FieldName) = "[]uint64"
          /\ IsUintText(TrimSpace(Split(SuppliedText(i))[1]))
          /\ response.errors[1].Message = "element 2: must be positive integer"

\* C8 (as claimed): a request processed with a descriptor that names a field
\* unknown to the record does not end in the Valid outcome.
C8_UnknownFieldIsLoud ==
    (pc = "done" /\ \E i \in Indexes : ~Wired(i)) => response.code # 200

\* position in the descriptor list of the descriptor of field f
DescriptorIndex(f) == CHOOSE i \in Indexes : configs[i].FieldName = f

\* C9: in every error answer each error is for a field of the descriptor
\* list and the errors are in the order of their descriptors in the list.
C9_ErrorsInDeclarationOrder ==
    (pc = "done" /\ response.code # 200) =>
        /\ \A k \in 1..Len(response.errors) :
              \E i \in Indexes : configs[i].FieldName = response.errors[k].Field
        /\ \A p, q \in 1..Len(response.errors) :
              p < q => DescriptorIndex(response.errors[p].Field)
                           < DescriptorIndex(response.errors[q].Field)

\* UserID declared before Tags: reported in that order, which is neither the
\* alphabetical order nor the order of the struct's fields
C9_Witness ==
    /\ pc = "done"
    /\ response.code = 400
    /\ Len(response.errors) >= 2
    /\ response.errors[1].Field = "UserID"
    /\ response.errors[2].Field = "Tags"

\* C10: when a raw text coerced to an unsigned integer list, the comma-joined
\* decimal forms of the list coerce again, to an equal list.
C10_ReserializeIdempotent ==
    cpc = "done" => (second.ok /\ second.val = first.val)

\* a text with blanks and a leading zero, so that the written text differs
\* from the raw one
C10_Witness ==
    /\ cpc = "done"
    /\ reser # raw
    /\ Len(first.val) >= 2
    /\ second.val = first.val

----------------------------------------------------------------------------
(* String list development: a raw text coerced to a list of strings by each *)
(* of the two string list coercers.                                         *)

\* the []string case of setFieldValue and StringSlice.UnmarshalText, each
\* applied to a fresh (nil) destination
CoerceStringList(which, text) ==
    IF which = "setFieldValue"
    THEN LET s == setFieldValue("[]string", ZeroRequest.Tags, text)
         IN [ok |-> s.err = "", val |-> s.field]
    ELSE LET u == StringSliceUnmarshalText(text)
         IN [ok |-> u.ok, val |-> u.s]

InitStrings ==
    /\ raw \in TextsUpTo(MaxLen)
    /\ coercer \in {"setFieldValue", "UnmarshalText"}
    /\ cpc = "text"
    /\ first = [ok |-> FALSE, val |-> <<>>]
    /\ reser = <<>>
    /\ second = [ok |-> FALSE, val |-> <<>>]
    /\ PipelineIdle

CoerceStrings ==
    /\ cpc = "text"
    /\ first' = CoerceStringList(coercer, raw)
    /\ cpc' = "list"
    /\ UNCHANGED <<raw, coercer, reser, second>>
    /\ UNCHANGED pipelineVars

NextStrings == CoerceStrings

SpecStrings == InitStrings /\ [][NextStrings]_vars

\* number of commas of a text
RECURSIVE Commas(_)
Commas(t) ==
    IF t = <<>> THEN 0
    ELSE (IF Head(t) = "," THEN 1 ELSE 0) + Commas(Tail(t))

\* the element has no blank at either end
Trimmed(e) == e = <<>> \/ (e[1] \notin WhiteSpace /\ e[Len(e)] \notin WhiteSpace)

\* C11 (as claimed): string list coercion never fails, yields the pieces
\* between the commas with the blanks around each removed, and yields a list
\* of length 0 for the empty text.
C11_StringListEmptyForEmptyText ==
    cpc = "list" =>
        /\ first.ok
        /\ \A k \in 1..Len(first.val) : Trimmed(first.val[k])
        /\ raw # <<>> => Len(first.val) = Commas(raw) + 1
        /\ raw = <<>> => Len(first.val) = 0

\* what the coercers do: never fail, one trimmed element per piece, hence one
\* empty element for the empty text
StringListOnePiecePerComma ==
    cpc = "list" =>
        /\ first.ok
        /\ \A k \in 1..Len(first.val) : Trimmed(first.val[k])
        /\ Len(first.val) = Commas(raw) + 1

====
